---- MODULE Spec2Model ----
(***************************************************************************)
(* A model of the cutoff-bulletin parser (src/final_parser.py).            *)
(*                                                                         *)
(* Text is modelled character by character: a line, a token and a page     *)
(* text are strings, taken apart with Len, SubSeq and \o, so that strip,   *)
(* split, startswith, substring tests and the regular expressions of the   *)
(* source are computed the way Python computes them.  A float is the pair  *)
(* <<m, k>> standing for m / 10^k, normalised.  None is the string "None"   *)
(* where a string may stand, the empty tuple where a float or a table may, *)
(* and -1 for the argument max_pages.                                      *)
(***************************************************************************)
EXTENDS Integers, Sequences, FiniteSets, TLC

VARIABLES
    pc,                \* position of the driver that is running
    word, fixed1, fixed2,        \* fix_category_name: input, one and two applications
    text, lines, institute_code, institute_name,
    courses, course_positions, course_idx, records, ranges,
                       \* parse_cutoff_page_complete: its locals; ranges logs
                       \* the <<course_start, course_end>> of every course parsed
    course_section,    \* the block handed to a course parser
    all_categories, data_start_idx, percentiles,
                       \* parse_simple_table_course: its locals
    i, sections,       \* parse_multi_section_course: outer cursor, and per
                       \* section processed a log of what its phases did
    pages, max_pages, page_num, all_records, failed_pages, page_stats, df
                       \* full_conversion: the document, the argument and the
                       \* locals; df is what is handed to persistence

vars == <<pc, word, fixed1, fixed2, text, lines, institute_code, institute_name,
          courses, course_positions, course_idx, records, ranges,
          course_section, all_categories, data_start_idx, percentiles,
          i, sections, pages, max_pages, page_num, all_records, failed_pages, page_stats, df>>

fixVars   == <<word, fixed1, fixed2>>
pageVars  == <<text, lines, institute_code, institute_name, courses,
               course_positions, course_idx, ranges>>
\* records is written by every parser and is listed on its own
blockVars == <<course_section, all_categories, data_start_idx, percentiles,
               i, sections>>
convVars  == <<pages, max_pages, page_num, all_records, failed_pages, page_stats, df>>

None == "None"
NoPercentile == <<>>
NoTable == <<>>
NoMaxPages == -1

(***************************************************************************)
(* Python's str operations.                                                *)
(***************************************************************************)
\* s[k-1:k]: the character at position k, empty outside the string
Ch(s, k) == IF 1 <= k /\ k <= Len(s) THEN SubSeq(s, k, k) ELSE ""

Digits == {"0", "1", "2", "3", "4", "5", "6", "7", "8", "9"}
Upper  == {"A", "B", "C", "D", "E", "F", "G", "H", "I", "J", "K", "L", "M",
           "N", "O", "P", "Q", "R", "S", "T", "U", "V", "W", "X", "Y", "Z"}
Space  == {" ", "\t", "\n", "\r"}

\* s.startswith(p)
StartsWith(s, p) == Len(s) >= Len(p) /\ SubSeq(s, 1, Len(p)) = p

\* p in s
Contains(s, p) ==
    \E k \in 1..(Len(s) - Len(p) + 1) : SubSeq(s, k, k + Len(p) - 1) = p

\* s.strip()
RECURSIVE LStrip(_)
LStrip(s) == IF Len(s) > 0 /\ Ch(s, 1) \in Space
             THEN LStrip(SubSeq(s, 2, Len(s))) ELSE s
RECURSIVE RStrip(_)
RStrip(s) == IF Len(s) > 0 /\ Ch(s, Len(s)) \in Space
             THEN RStrip(SubSeq(s, 1, Len(s) - 1)) ELSE s
Strip(s) == RStrip(LStrip(s))

\* s.split(): the maximal runs of non-whitespace, in order
RECURSIVE SplitFrom(_, _, _)
SplitFrom(s, k, cur) ==
    IF k > Len(s) THEN (IF cur = "" THEN <<>> ELSE <<cur>>)
    ELSE IF Ch(s, k) \in Space
         THEN (IF cur = "" THEN <<>> ELSE <<cur>>) \o SplitFrom(s, k + 1, "")
         ELSE SplitFrom(s, k + 1, cur \o Ch(s, k))
Split(s) == SplitFrom(s, 1, "")

\* s.split(sep, 1): a pair when sep occurs, else the one-element list
RECURSIVE FindFrom(_, _, _)
FindFrom(s, p, k) ==
    IF k + Len(p) - 1 > Len(s) THEN 0
    ELSE IF SubSeq(s, k, k + Len(p) - 1) = p THEN k ELSE FindFrom(s, p, k + 1)
SplitOnce(s, sep) ==
    LET k == FindFrom(s, sep, 1)
    IN  IF k = 0 THEN <<s>>
        ELSE <<SubSeq(s, 1, k - 1), SubSeq(s, k + Len(sep), Len(s))>>

\* text.split('\n'): the pieces between the newlines, in order
SplitLines(s) ==
    LET nl     == {k \in 1..Len(s) : Ch(s, k) = "\n"}
        n      == Cardinality(nl)
        pos(k) == CHOOSE q \in nl : Cardinality({r \in nl : r < q}) = k - 1
    IN  [k \in 1..(n + 1) |->
            SubSeq(s, IF k = 1 THEN 1 ELSE pos(k - 1) + 1,
                      IF k = n + 1 THEN Len(s) ELSE pos(k) - 1)]

\* '\n'.join(ls): how the text-extraction collaborator lays a page out
RECURSIVE JoinLines(_)
JoinLines(ls) ==
    IF Len(ls) = 0 THEN ""
    ELSE IF Len(ls) = 1 THEN ls[1]
         ELSE ls[1] \o "\n" \o JoinLines(Tail(ls))

\* the number of characters of s from position k on that lie in set cs
RECURSIVE Run(_, _, _)
Run(s, k, cs) ==
    IF k <= Len(s) /\ Ch(s, k) \in cs THEN 1 + Run(s, k + 1, cs) ELSE 0

(***************************************************************************)
(* fix_category_name and the category pattern.                             *)
(***************************************************************************)
\* re.match(r'^[A-Z]{2,}\d*[HOS]?$', s)
CategoryPattern(s) ==
    LET u    == Run(s, 1, Upper)
        d    == Run(s, u + 1, Digits)
        rest == Len(s) - u - d
    IN  /\ u >= 2
        /\ \/ rest = 0
           \/ rest = 1 /\ Ch(s, Len(s)) \in {"H", "O", "S"}

category_fixes ==
    [w \in {"SDEFRSEBC", "SEWS", "SORPHAN", "SDEFRSCS", "SDEFROBCS",
            "SDEFRNT1S", "SDEFRNT2S", "SDEFRNT3S"} |->
        CASE w = "SDEFRSEBC" -> "DEFRSEBCS"
          [] w = "SEWS"      -> "EWS"
          [] w = "SORPHAN"   -> "ORPHAN"
          [] w = "SDEFRSCS"  -> "DEFRSCS"
          [] w = "SDEFROBCS" -> "DEFROBCS"
          [] w = "SDEFRNT1S" -> "DEFRNT1S"
          [] w = "SDEFRNT2S" -> "DEFRNT2S"
          [] w = "SDEFRNT3S" -> "DEFRNT3S"]

StripExclusions == {"STAGE", "STATE", "STATUS"}

StripMinLen == 4

fix_category_name_AnyLead(w) ==
    IF w \in DOMAIN category_fixes THEN category_fixes[w]
    ELSE IF Len(w) > StripMinLen /\ w \notin StripExclusions
            /\ CategoryPattern(SubSeq(w, 2, Len(w)))
         THEN SubSeq(w, 2, Len(w))
         ELSE w

fix_category_name(w) ==
    IF w \in DOMAIN category_fixes THEN category_fixes[w]
    ELSE IF StartsWith(w, "S") /\ Len(w) > StripMinLen /\ w \notin StripExclusions
            /\ CategoryPattern(SubSeq(w, 2, Len(w)))
         THEN SubSeq(w, 2, Len(w))
         ELSE w

\* the check both parsers apply to a corrected word (lines 104-105, 131-132, 218-219)
IsCategory(cw) ==
    (CategoryPattern(cw) /\ Len(cw) >= 2) \/ cw = "EWS"

\* the corrected words of a line's tokens that are categories, in order
RECURSIVE CategoriesOfWords(_)
CategoriesOfWords(ws) ==
    IF Len(ws) = 0 THEN <<>>
    ELSE LET cw == fix_category_name(Head(ws))
         IN  (IF IsCategory(cw) THEN <<cw>> ELSE <<>>) \o CategoriesOfWords(Tail(ws))

(***************************************************************************)
(* Percentiles: the regular expressions and float().                       *)
(***************************************************************************)
\* re.search(r'\(\d+\.\d+\)', s)
HasParenDecimal(s) ==
    \E k \in 1..Len(s) :
        /\ Ch(s, k) = "("
        /\ LET a == Run(s, k + 1, Digits)
               b == Run(s, k + a + 2, Digits)
           IN  /\ a >= 1
               /\ Ch(s, k + a + 1) = "."
               /\ b >= 1
               /\ Ch(s, k + a + b + 2) = ")"

\* One attempt of r'\(([0-9]+\.?[0-9]+)\)' at position k: the position of the
\* closing parenthesis, or 0.  Without a dot the two digit groups share one
\* run of digits, so the run needs two digits.
ParenMatchAt(s, k) ==
    IF Ch(s, k) # "(" THEN 0
    ELSE LET a == Run(s, k + 1, Digits)
             b == Run(s, k + a + 2, Digits)
         IN  IF a = 0 THEN 0
             ELSE IF Ch(s, k + a + 1) = "." /\ b >= 1 /\ Ch(s, k + a + b + 2) = ")"
                  THEN k + a + b + 2
             ELSE IF a >= 2 /\ Ch(s, k + a + 1) = ")" THEN k + a + 1
             ELSE 0

\* re.findall(r'\(([0-9]+\.?[0-9]+)\)', s): the groups of the non-overlapping
\* matches, left to right
RECURSIVE FindAllFrom(_, _)
FindAllFrom(s, k) ==
    IF k > Len(s) THEN <<>>
    ELSE LET e == ParenMatchAt(s, k)
         IN  IF e = 0 THEN FindAllFrom(s, k + 1)
             ELSE <<SubSeq(s, k + 1, e - 1)>> \o FindAllFrom(s, e + 1)
FindAll(s) == FindAllFrom(s, 1)

DigitVal(c) ==
    CASE c = "0" -> 0 [] c = "1" -> 1 [] c = "2" -> 2 [] c = "3" -> 3
      [] c = "4" -> 4 [] c = "5" -> 5 [] c = "6" -> 6 [] c = "7" -> 7
      [] c = "8" -> 8 [] c = "9" -> 9

RECURSIVE Pow10(_)
Pow10(k) == IF k = 0 THEN 1 ELSE 10 * Pow10(k - 1)

\* the value m / 10^k in lowest decimal terms
RECURSIVE Normalise(_, _)
Normalise(m, k) ==
    IF k > 0 /\ m % 10 = 0 THEN Normalise(m \div 10, k - 1) ELSE <<m, k>>

\* float(p) of a string of digits with at most one dot
RECURSIVE FloatFrom(_, _, _, _)
FloatFrom(p, k, m, scale) ==
    IF k > Len(p) THEN Normalise(m, IF scale < 0 THEN 0 ELSE scale)
    ELSE IF Ch(p, k) = "." THEN FloatFrom(p, k + 1, m, 0)
         ELSE FloatFrom(p, k + 1, 10 * m + DigitVal(Ch(p, k)),
                        IF scale < 0 THEN scale ELSE scale + 1)
Float(p) == FloatFrom(p, 1, 0, -1)

PercentileMax == 100

\* 0 <= val <= 100
InRange(v) == 0 <= v[1] /\ v[1] <= PercentileMax * Pow10(v[2])

\* the percentiles one line appends (lines 149-156, 228-235)
RECURSIVE KeepInRange(_)
KeepInRange(ps) ==
    IF Len(ps) = 0 THEN <<>>
    ELSE LET val == Float(Head(ps))
         IN  (IF InRange(val) THEN <<val>> ELSE <<>>) \o KeepInRange(Tail(ps))
LinePercentiles(line) == KeepInRange(FindAll(line))

(***************************************************************************)
(* The record loop both parsers end with (lines 166-177, 246-257).         *)
(***************************************************************************)
Record(ic, iname, cc, cname, category, percentile) ==
    [Institute_Code |-> ic, Institute_Name |-> iname, Course_Code |-> cc,
     Course |-> cname, Category |-> category, Percentile |-> percentile]

CreateRecords_OffByOne(cats, pcts, ic, iname, cc, cname) ==
    [k \in 1..Len(cats) |->
        Record(ic, iname, cc, cname, cats[k],
               IF k < Len(pcts) THEN pcts[k] ELSE NoPercentile)]

CreateRecords(cats, pcts, ic, iname, cc, cname) ==
    [k \in 1..Len(cats) |->
        Record(ic, iname, cc, cname, cats[k],
               IF k <= Len(pcts) THEN pcts[k] ELSE NoPercentile)]

(***************************************************************************)
(* parse_simple_table_course.  Indices are Python's: line k of a block is  *)
(* course_section[k + 1], and -1 stands for "no index".                    *)
(***************************************************************************)
HeaderMinTokens == 8

IsMainHeader_NoCount(line) ==
    Contains(line, "GOPENS") \/ Contains(line, "GOPENH")

\* line 100: the main category header line
IsMainHeader(line) ==
    /\ Contains(line, "GOPENS") \/ Contains(line, "GOPENH")
    /\ Len(Split(line)) >= HeaderMinTokens

\* lines 98-100: the index of the first main header line, or -1
RECURSIVE HeaderIdxFrom(_, _)
HeaderIdxFrom(section, k) ==
    IF k >= Len(section) THEN -1
    ELSE IF IsMainHeader(Strip(section[k + 1])) THEN k
         ELSE HeaderIdxFrom(section, k + 1)

\* lines 114-116 and 121-123: the line the category lines stop at
CategoryLinesStop(next_line) ==
    \/ HasParenDecimal(next_line)
    \/ StartsWith(next_line, "I ")
    \/ Len(next_line) = 0
    \/ StartsWith(next_line, "Home")
    \/ StartsWith(next_line, "Other")
    \/ StartsWith(next_line, "State")

\* lines 109-135: the while loop over the lines after the header
RECURSIVE CollectCategoryLines(_, _, _)
CollectCategoryLines(section, j, cats) ==
    IF j >= Len(section) THEN [categories |-> cats, data_start |-> -1]
    ELSE LET next_line == Strip(section[j + 1])
             words     == IF Split(next_line) # <<>> THEN Split(next_line)
                          ELSE <<next_line>>
         IN  IF CategoryLinesStop(next_line)
             THEN [categories |-> cats, data_start |-> j]
             ELSE CollectCategoryLines(section, j + 1,
                                       cats \o CategoriesOfWords(words))

\* lines 97-137
SimpleCategories(section) ==
    LET h == HeaderIdxFrom(section, 0)
    IN  IF h = -1 THEN [categories |-> <<>>, data_start |-> -1]
        ELSE CollectCategoryLines(section, h + 1,
                 CategoriesOfWords(Split(Strip(section[h + 1]))))

\* lines 159-163: the line the data section ends with
DataSectionStop(line) ==
    \/ line = ""
    \/ StartsWith(line, "Home University")
    \/ StartsWith(line, "Other Than")
    \/ StartsWith(line, "State")
    \/ Contains(line, "Stage")

\* lines 145-164: the for loop from data_start_idx on
RECURSIVE SimplePercentilesFrom(_, _)
SimplePercentilesFrom(section, k) ==
    IF k >= Len(section) THEN <<>>
    ELSE LET line == Strip(section[k + 1])
         IN  LinePercentiles(line) \o
             (IF DataSectionStop(line) THEN <<>>
              ELSE SimplePercentilesFrom(section, k + 1))

\* lines 143-164
SimplePercentiles(section, start) ==
    IF start # -1 THEN SimplePercentilesFrom(section, start) ELSE <<>>

\* lines 91-179, as a function
parse_simple_table_course(section, ic, iname, cc, cname) ==
    LET c == SimpleCategories(section)
    IN  IF c.categories = <<>> THEN <<>>
        ELSE CreateRecords(c.categories, SimplePercentiles(section, c.data_start),
                           ic, iname, cc, cname)

(***************************************************************************)
(* parse_multi_section_course.                                             *)
(***************************************************************************)
HomeToHome   == "Home University Seats Allotted to Home University"
HomeToOther  == "Home University Seats Allotted to Other Than Home University"
OtherToOther == "Other Than Home University Seats Allotted to Other Than Home University"
StateLevel   == "State Level"

\* lines 190-193
IsSectionHeader(line) ==
    \/ Contains(line, HomeToHome)
    \/ Contains(line, HomeToOther)
    \/ Contains(line, OtherToOther)
    \/ line = StateLevel

\* lines 205-210
CategoryPhaseStop(cat_line) ==
    \/ StartsWith(cat_line, "I ")
    \/ HasParenDecimal(cat_line)
    \/ Contains(cat_line, "Home University Seats Allotted")
    \/ cat_line = StateLevel
    \/ Contains(cat_line, "Other Than Home University Seats Allotted")
    \/ Contains(cat_line, "Legends:")

\* lines 201-221: the loop ends with cursor j and the section's categories
RECURSIVE CategoryPhase(_, _, _)
CategoryPhase(section, j, cats) ==
    IF j >= Len(section) THEN [categories |-> cats, j |-> j]
    ELSE LET cat_line == Strip(section[j + 1])
         IN  IF CategoryPhaseStop(cat_line) THEN [categories |-> cats, j |-> j]
             ELSE CategoryPhase(section, j + 1,
                      IF cat_line # "" THEN cats \o CategoriesOfWords(Split(cat_line))
                      ELSE cats)

PercentilePhaseStop_NoMarkers(data_line) ==
    \/ Contains(data_line, "Stage")
    \/ Contains(data_line, "Legends:")

\* lines 238-242
PercentilePhaseStop(data_line) ==
    \/ Contains(data_line, "Stage")
    \/ Contains(data_line, "Home University Seats Allotted")
    \/ data_line = StateLevel
    \/ Contains(data_line, "Other Than Home University Seats Allotted")
    \/ Contains(data_line, "Legends:")

\* lines 224-244: the loop ends with cursor j, the section's percentiles, and
\* (for the properties) the lines it read percentiles from, one entry per
\* value appended
RECURSIVE PercentilePhase(_, _, _, _)
PercentilePhase(section, j, pcts, from) ==
    IF j >= Len(section) THEN [percentiles |-> pcts, j |-> j, from |-> from]
    ELSE LET data_line == Strip(section[j + 1])
             got       == LinePercentiles(data_line)
             pcts2     == pcts \o got
             from2     == from \o [k \in 1..Len(got) |-> j]
         IN  IF PercentilePhaseStop(data_line)
             THEN [percentiles |-> pcts2, j |-> j, from |-> from2]
             ELSE PercentilePhase(section, j + 1, pcts2, from2)

\* lines 196-244: what one section's two phases do, for the marker at line m
SectionScan_FromMarker(section, m) ==
    LET c == CategoryPhase(section, m, <<>>)
        p == PercentilePhase(section, c.j, <<>>, <<>>)
    IN  [marker |-> m, categories |-> c.categories, cat_stop |-> c.j,
         percentiles |-> p.percentiles, from |-> p.from, j |-> p.j]

SectionScan(section, m) ==
    LET c == CategoryPhase(section, m + 1, <<>>)
        p == PercentilePhase(section, c.j, <<>>, <<>>)
    IN  [marker |-> m, categories |-> c.categories, cat_stop |-> c.j,
         percentiles |-> p.percentiles, from |-> p.from, j |-> p.j]

\* line 260: where the outer cursor goes after a section
CursorAfterSection_Skip(scan) == scan.j + 1

CursorAfterSection(scan) == scan.j

\* lines 184-264, as a function
RECURSIVE MultiFrom(_, _, _, _, _, _)
MultiFrom(section, k, ic, iname, cc, cname) ==
    IF k >= Len(section) THEN <<>>
    ELSE IF IsSectionHeader(Strip(section[k + 1]))
         THEN LET scan == SectionScan(section, k)
              IN  CreateRecords(scan.categories, scan.percentiles, ic, iname, cc, cname)
                  \o MultiFrom(section, CursorAfterSection(scan), ic, iname, cc, cname)
         ELSE MultiFrom(section, k + 1, ic, iname, cc, cname)
parse_multi_section_course(section, ic, iname, cc, cname) ==
    MultiFrom(section, 0, ic, iname, cc, cname)

(***************************************************************************)
(* The inputs the course parsers are run on.                               *)
(***************************************************************************)
MaxChunks      == 3
MaxSimpleLines == 4

InstituteLine == "12345 - ABC College Of Engineering"
CourseLineA   == "1234567890 - Computer Engineering"
CourseLineB   == "1234567891 - Civil Engineering"

CatLine1   == "GOPENS"
CatLine3   == "GOPENS GOPENH GSCS"
DataLine90 == "I 90.00 (90.00)"
DataLine80 == "I 80.00 (80.00)"
DataLine2  == "I 99.99 (99.99) 95.0 (95.0)"
StageLine  == "Stage-I 70.00 (70.00)"
LegendLine == "Legends:"
HeaderLine8 == "GOPENS GOPENH GSCS GSTS GVJS GNT1S GOBCS SEWS"
MoreCatLine == "  GNT2S SORPHAN "
OddDataLine == "I 5 (5) 7 (7.) 55 (55) 150.00 (150.00) 99.99 (99.99)"

\* a section as the bulletin prints it: marker, categories, one data row
SectionChunks ==
    {<<mk, c[1], c[2]>> : mk \in {HomeToHome, StateLevel},
                          c \in {<<CatLine1, DataLine90>>, <<CatLine1, DataLine80>>,
                                 <<CatLine3, DataLine2>>}}

MultiChunks ==
    SectionChunks \cup
    {<<l>> : l \in {HomeToHome, StateLevel, CatLine1, DataLine90, StageLine, LegendLine}}

SimpleLines == {HeaderLine8, MoreCatLine, OddDataLine, StageLine, "", DataLine90}

\* the concatenations of at most n members of a set of sequences
RECURSIVE ConcatsUpTo(_, _)
ConcatsUpTo(S, n) ==
    IF n = 0 THEN {<<>>}
    ELSE LET r == ConcatsUpTo(S, n - 1)
         IN  r \cup {q \o c : q \in r, c \in S}

\* course blocks: the course's header line, then the body
CourseBlocks ==
    {<<CourseLineA>> \o b : b \in ConcatsUpTo(MultiChunks, MaxChunks)}
    \cup {<<CourseLineA>> \o b :
             b \in ConcatsUpTo({<<l>> : l \in SimpleLines}, MaxSimpleLines)}

(***************************************************************************)
(* Start values of the locals a specification does not use.                *)
(***************************************************************************)
IdleFix   == word = "" /\ fixed1 = None /\ fixed2 = None
IdlePage  == /\ text = "" /\ lines = <<>> /\ institute_code = None
             /\ institute_name = None /\ courses = <<>>
             /\ course_positions = <<>> /\ course_idx = 0 /\ ranges = <<>>
IdleBlock == /\ course_section = <<>> /\ all_categories = <<>>
             /\ data_start_idx = -1 /\ percentiles = <<>>
             /\ i = 0 /\ sections = <<>>
IdleConv  == /\ pages = <<>> /\ max_pages = NoMaxPages /\ page_num = 0 /\ all_records = <<>>
             /\ failed_pages = <<>> /\ page_stats = <<>> /\ df = NoTable

(***************************************************************************)
(* Spec: one course parser run on one course block.                        *)
(***************************************************************************)
course_code == courses[course_idx + 1][1]
course_name == courses[course_idx + 1][2]

InitCourse ==
    /\ pc = "call"
    /\ IdleBlock
    /\ records = <<>>
    /\ text = "" /\ lines = <<>> /\ course_positions = <<>> /\ ranges = <<>>
    /\ institute_code = "12345" /\ institute_name = "ABC College Of Engineering"
    /\ courses = <<<<"1234567890", "Computer Engineering">>>> /\ course_idx = 0
    /\ IdleFix /\ IdleConv

\* the call of a course parser on a course block (the call sites are lines
\* 82-85 of parse_cutoff_page_complete); either parser may be handed any block
CallParser ==
    /\ pc = "call"
    /\ pc' \in {"simple", "multi"}
    /\ course_section' \in CourseBlocks
    /\ UNCHANGED <<all_categories, data_start_idx, percentiles, i, sections, records>>
    /\ UNCHANGED <<fixVars, pageVars, convVars>>

\* the lines of a block that are section headers
SectionHeaders(section) ==
    {m \in 0..(Len(section) - 1) : IsSectionHeader(Strip(section[m + 1]))}

\* SectionScan at every section header of every course block, as a table (a
\* constant function is evaluated once, and not again in each state that uses it)
SectionScans ==
    [section \in CourseBlocks |->
        [m \in SectionHeaders(section) |-> SectionScan(section, m)]]

\* parse_simple_table_course, lines 93-140: the header and category lines
STCollectCategories ==
    /\ pc = "simple"
    /\ \E c \in {SimpleCategories(course_section)} :
           /\ all_categories' = c.categories
           /\ data_start_idx' = c.data_start
           /\ pc' = IF c.categories = <<>> THEN "done" ELSE "simple_data"
    /\ UNCHANGED <<course_section, percentiles, i, sections, records>>
    /\ UNCHANGED <<fixVars, pageVars, convVars>>

\* parse_simple_table_course, lines 142-164: the data section
STExtractPercentiles ==
    /\ pc = "simple_data"
    /\ percentiles' = SimplePercentiles(course_section, data_start_idx)
    /\ pc' = "simple_records"
    /\ UNCHANGED <<course_section, all_categories, data_start_idx, i, sections, records>>
    /\ UNCHANGED <<fixVars, pageVars, convVars>>

\* parse_simple_table_course, lines 166-179: the records
STCreateRecords ==
    /\ pc = "simple_records"
    /\ records' = CreateRecords(all_categories, percentiles, institute_code,
                                institute_name, course_code, course_name)
    /\ pc' = "done"
    /\ UNCHANGED <<blockVars, fixVars, pageVars, convVars>>

\* parse_multi_section_course, lines 186-260: an iteration of the outer loop
\* on a section header
MSSection ==
    /\ pc = "multi"
    /\ i < Len(course_section)
    /\ IsSectionHeader(Strip(course_section[i + 1]))
    /\ \E scan \in {SectionScans[course_section][i]} :
           /\ records' = records \o
                  CreateRecords(scan.categories, scan.percentiles, institute_code,
                                institute_name, course_code, course_name)
           /\ sections' = Append(sections, scan)
           /\ i' = CursorAfterSection(scan)
    /\ UNCHANGED <<pc, course_section, all_categories, data_start_idx, percentiles>>
    /\ UNCHANGED <<fixVars, pageVars, convVars>>

\* parse_multi_section_course, lines 186-187, 261-262: an iteration on any
\* other line
MSAdvance ==
    /\ pc = "multi"
    /\ i < Len(course_section)
    /\ ~IsSectionHeader(Strip(course_section[i + 1]))
    /\ i' = i + 1
    /\ UNCHANGED <<pc, course_section, all_categories, data_start_idx, percentiles,
                   sections, records>>
    /\ UNCHANGED <<fixVars, pageVars, convVars>>

\* parse_multi_section_course, lines 186, 264: the loop ends
MSReturn ==
    /\ pc = "multi"
    /\ i >= Len(course_section)
    /\ pc' = "done"
    /\ UNCHANGED <<blockVars, records, fixVars, pageVars, convVars>>

NextCourse ==
    \/ CallParser
    \/ STCollectCategories
    \/ STExtractPercentiles
    \/ STCreateRecords
    \/ MSSection
    \/ MSAdvance
    \/ MSReturn

Spec == InitCourse /\ [][NextCourse]_vars

\* parse_multi_section_course runs to its return: the interpreter executes the
\* next iteration of the loop at line 186, or the return at line 264
SpecFair == Spec /\ WF_vars(MSSection \/ MSAdvance \/ MSReturn)

(***************************************************************************)
(* SpecPage: parse_cutoff_page_complete on one page text.                  *)
(***************************************************************************)
\* re.match(r'^\d{5} - ', line) and re.match(r'^\d{10} - ', line)
DigitsDash(line, n) ==
    /\ Run(line, 1, Digits) >= n
    /\ SubSeq(line, n + 1, n + 3) = " - "
    /\ Len(line) >= n + 3

\* lines 39-45: the first institute line, as <<code, name>>, or <<None, None>>
RECURSIVE InstituteFrom(_, _)
InstituteFrom(ls, k) ==
    IF k > Len(ls) THEN <<None, None>>
    ELSE LET line  == Strip(ls[k])
             parts == SplitOnce(line, " - ")
         IN  IF DigitsDash(line, 5)
             THEN <<parts[1], IF Len(parts) > 1 THEN parts[2] ELSE "">>
             ELSE InstituteFrom(ls, k + 1)

\* lines 54-61: the course header lines in order, each as <<code, name, index>>
RECURSIVE CourseLinesFrom(_, _)
CourseLinesFrom(ls, k) ==
    IF k >= Len(ls) THEN <<>>
    ELSE LET line  == Strip(ls[k + 1])
             parts == SplitOnce(line, " - ")
         IN  (IF DigitsDash(line, 10)
              THEN <<<<parts[1], IF Len(parts) > 1 THEN parts[2] ELSE "", k>>>>
              ELSE <<>>) \o CourseLinesFrom(ls, k + 1)

\* line 61: the dict course_positions keeps, per code, the last index stored
PositionsOf(found) ==
    [c \in {found[k][1] : k \in 1..Len(found)} |->
        LET last == CHOOSE k \in 1..Len(found) :
                        /\ found[k][1] = c
                        /\ \A k2 \in 1..Len(found) : found[k2][1] = c => k2 <= k
        IN  found[last][3]]

\* lines[a:b] for 0 <= a, 0 <= b <= len(lines)
Slice(ls, a, b) == SubSeq(ls, a + 1, b)

\* line 68
CourseStart(pos, cs, idx) == pos[cs[idx + 1][1]]

\* lines 71-74
CourseEnd(ls, pos, cs, idx) ==
    IF idx + 1 < Len(cs) THEN pos[cs[idx + 2][1]] ELSE Len(ls)

\* line 80
HasSections(section) ==
    \E k \in 1..Len(section) : Contains(section[k], "Home University Seats Allotted")

\* lines 77-87: the records of one course
CourseRecords(section, ic, iname, cc, cname) ==
    IF HasSections(section)
    THEN parse_multi_section_course(section, ic, iname, cc, cname)
    ELSE parse_simple_table_course(section, ic, iname, cc, cname)

\* lines 67-87, as a function
RECURSIVE PageCoursesFrom(_, _, _, _, _, _)
PageCoursesFrom(ls, pos, cs, idx, ic, iname) ==
    IF idx >= Len(cs) THEN <<>>
    ELSE CourseRecords(Slice(ls, CourseStart(pos, cs, idx), CourseEnd(ls, pos, cs, idx)),
                       ic, iname, cs[idx + 1][1], cs[idx + 1][2])
         \o PageCoursesFrom(ls, pos, cs, idx + 1, ic, iname)

\* lines 30-89, as a function
parse_cutoff_page_complete(t) ==
    LET ls    == SplitLines(t)
        inst  == InstituteFrom(ls, 1)
        found == CourseLinesFrom(ls, 0)
        cs    == [k \in 1..Len(found) |-> <<found[k][1], found[k][2]>>]
    IN  IF inst[1] = None \/ inst[1] = "" THEN <<>>
        ELSE IF cs = <<>> THEN <<>>
        ELSE PageCoursesFrom(ls, PositionsOf(found), cs, 0, inst[1], inst[2])

MaxPageLines == 4

HeaderLine4 == "GOPENS GOPENH GSCS GSTS"
DataLine4   == "I 99.99 (99.99) 95.00 (95.00) 90.00 (90.00) 85.00 (85.00)"

PageLines == {InstituteLine, CourseLineA, CourseLineB, HeaderLine4, HeaderLine8,
              DataLine4, HomeToHome}

PageTexts ==
    {JoinLines(ls) : ls \in ConcatsUpTo({<<l>> : l \in PageLines}, MaxPageLines)}

InitPage ==
    /\ pc = "page"
    /\ text \in PageTexts
    /\ lines = <<>> /\ institute_code = None /\ institute_name = None
    /\ courses = <<>> /\ course_positions = <<>> /\ course_idx = 0
    /\ ranges = <<>> /\ records = <<>>
    /\ IdleBlock /\ IdleFix /\ IdleConv

\* lines 32-64: the two scans, and the returns when one finds nothing
PGScan ==
    /\ pc = "page"
    /\ LET ls    == SplitLines(text)
           inst  == InstituteFrom(ls, 1)
           found == CourseLinesFrom(ls, 0)
           none  == inst[1] = None \/ inst[1] = ""
       IN  /\ lines' = ls
           /\ institute_code' = inst[1]
           /\ institute_name' = inst[2]
           /\ courses' = IF none THEN <<>>
                         ELSE [k \in 1..Len(found) |-> <<found[k][1], found[k][2]>>]
           /\ course_positions' = IF none THEN <<>> ELSE PositionsOf(found)
           /\ pc' = IF none \/ found = <<>> THEN "done" ELSE "page_courses"
    /\ UNCHANGED <<text, course_idx, ranges, records>>
    /\ UNCHANGED <<blockVars, fixVars, convVars>>

\* lines 67-87: one iteration of the loop over the courses
PGCourse ==
    /\ pc = "page_courses"
    /\ course_idx < Len(courses)
    /\ LET course_start == CourseStart(course_positions, courses, course_idx)
           course_end   == CourseEnd(lines, course_positions, courses, course_idx)
           section      == Slice(lines, course_start, course_end)
       IN  /\ course_section' = section
           /\ ranges' = Append(ranges, <<course_start, course_end>>)
           /\ records' = records \o
                  CourseRecords(section, institute_code, institute_name,
                                course_code, course_name)
    /\ course_idx' = course_idx + 1
    /\ UNCHANGED <<pc, text, lines, institute_code, institute_name, courses,
                   course_positions>>
    /\ UNCHANGED <<all_categories, data_start_idx, percentiles, i, sections>>
    /\ UNCHANGED <<fixVars, convVars>>

\* lines 67, 89: the loop ends
PGReturn ==
    /\ pc = "page_courses"
    /\ course_idx >= Len(courses)
    /\ pc' = "done"
    /\ UNCHANGED <<pageVars, records, blockVars, fixVars, convVars>>

NextPage == PGScan \/ PGCourse \/ PGReturn

SpecPage == InitPage /\ [][NextPage]_vars

(***************************************************************************)
(* SpecConv: full_conversion over a document.  A page of the document is   *)
(* its text and whether reading it (pdf_reader.pages[...], extract_text)   *)
(* or parsing it raises.                                                   *)
(***************************************************************************)
MinPageChars == 50

\* line 317
PageTooShort(t) == t = "" \/ Len(Strip(t)) < MinPageChars

\* lines 314-321: the page's try block raises before records are extended
PageRaises(page) ==
    \/ page.fault = "extract"
    \/ page.fault = "parse" /\ ~PageTooShort(page.text)

\* lines 304-307
pages_to_process ==
    IF max_pages = NoMaxPages THEN Len(pages)
    ELSE IF max_pages < Len(pages) THEN max_pages ELSE Len(pages)

\* Python's order on str: by code point, a proper prefix first
AsciiTo95 ==
    " !\"#$%&'()*+,-./0123456789:;<=>?@ABCDEFGHIJKLMNOPQRSTUVWXYZ[\\]^_"
AsciiFrom97 == "abcdefghijklmnopqrstuvwxyz{|}~"
CodePoint(c) ==
    IF \E k \in 1..Len(AsciiTo95) : Ch(AsciiTo95, k) = c
    THEN 31 + (CHOOSE k \in 1..Len(AsciiTo95) : Ch(AsciiTo95, k) = c)
    ELSE 96 + (CHOOSE k \in 1..Len(AsciiFrom97) : Ch(AsciiFrom97, k) = c)
RECURSIVE StrLess(_, _)
StrLess(a, b) ==
    IF Len(b) = 0 THEN FALSE
    ELSE IF Len(a) = 0 THEN TRUE
    ELSE IF Ch(a, 1) = Ch(b, 1)
         THEN StrLess(SubSeq(a, 2, Len(a)), SubSeq(b, 2, Len(b)))
         ELSE CodePoint(Ch(a, 1)) < CodePoint(Ch(b, 1))

\* the sort key of line 358, and its order
SortKey(r) == <<r.Institute_Code, r.Course_Code, r.Category>>
KeyLess(x, y) ==
    \/ StrLess(x[1], y[1])
    \/ x[1] = y[1] /\ StrLess(x[2], y[2])
    \/ x[1] = y[1] /\ x[2] = y[2] /\ StrLess(x[3], y[3])

\* line 357, df.drop_duplicates(): the first of equal rows stays, in place
RECURSIVE DropDuplicatesFrom(_, _)
DropDuplicatesFrom(rows, kept) ==
    IF Len(rows) = 0 THEN kept
    ELSE DropDuplicatesFrom(Tail(rows),
             IF \E k \in 1..Len(kept) : kept[k] = Head(rows) THEN kept
             ELSE Append(kept, Head(rows)))
drop_duplicates(rows) == DropDuplicatesFrom(rows, <<>>)

\* line 358, df.sort_values on several columns: a stable sort on the key
InsertRow(sorted, r) ==
    LET before == {k \in 1..Len(sorted) : ~KeyLess(SortKey(r), SortKey(sorted[k]))}
        n      == Cardinality(before)
    IN  SubSeq(sorted, 1, n) \o <<r>> \o SubSeq(sorted, n + 1, Len(sorted))
RECURSIVE SortFrom(_, _)
SortFrom(rows, sorted) ==
    IF Len(rows) = 0 THEN sorted
    ELSE SortFrom(Tail(rows), InsertRow(sorted, Head(rows)))
sort_values_Unsorted(rows) == rows

sort_values(rows) == SortFrom(rows, <<>>)

MaxPages == 3

DocPageMulti ==
    JoinLines(<<InstituteLine, CourseLineA, HomeToHome, CatLine1, DataLine90,
                StateLevel, CatLine1, DataLine80>>)
DocPageSimple ==
    JoinLines(<<"02345 - XYZ Institute Of Technology", CourseLineB, HeaderLine8,
                DataLine4>>)
DocPageShort == "12345 - ABC College"
DocPageNoInstitute ==
    JoinLines(<<"Government of Maharashtra", "State Common Entrance Test Cell",
                HeaderLine8>>)

DocPages ==
    {[text |-> t, fault |-> "none"] :
        t \in {DocPageMulti, DocPageSimple, DocPageShort, DocPageNoInstitute}}
    \cup {[text |-> DocPageSimple, fault |-> "extract"],
          [text |-> DocPageMulti, fault |-> "parse"]}

Documents == ConcatsUpTo({<<pg>> : pg \in DocPages}, MaxPages)

InitConv ==
    /\ pc = "conv"
    /\ pages \in Documents
    /\ max_pages \in {NoMaxPages, 2}
    /\ page_num = 0 /\ all_records = <<>> /\ failed_pages = <<>>
    /\ page_stats = <<>> /\ df = NoTable
    /\ records = <<>>
    /\ IdlePage /\ IdleBlock /\ IdleFix

\* lines 313-315, 334-336: reading or parsing the page raises
FCPageException_Abort ==
    /\ pc = "conv"
    /\ page_num < pages_to_process
    /\ PageRaises(pages[page_num + 1])
    /\ failed_pages' = Append(failed_pages, <<page_num + 1, "Exception: " \o
                                                pages[page_num + 1].fault>>)
    /\ page_num' = pages_to_process
    /\ UNCHANGED <<pc, pages, max_pages, all_records, page_stats, df, records>>
    /\ UNCHANGED <<pageVars, blockVars, fixVars>>

FCPageException ==
    /\ pc = "conv"
    /\ page_num < pages_to_process
    /\ PageRaises(pages[page_num + 1])
    /\ failed_pages' = Append(failed_pages, <<page_num + 1, "Exception: " \o
                                                pages[page_num + 1].fault>>)
    /\ page_num' = page_num + 1
    /\ UNCHANGED <<pc, pages, max_pages, all_records, page_stats, df, records>>
    /\ UNCHANGED <<pageVars, blockVars, fixVars>>

\* lines 317-319: an empty or short page
FCPageShort ==
    /\ pc = "conv"
    /\ page_num < pages_to_process
    /\ ~PageRaises(pages[page_num + 1])
    /\ PageTooShort(pages[page_num + 1].text)
    /\ failed_pages' = Append(failed_pages,
                              <<page_num + 1, "Empty or too short page content">>)
    /\ page_num' = page_num + 1
    /\ UNCHANGED <<pc, pages, max_pages, all_records, page_stats, df, records>>
    /\ UNCHANGED <<pageVars, blockVars, fixVars>>

\* lines 321-332: the page is parsed
FCPageParsed ==
    /\ pc = "conv"
    /\ page_num < pages_to_process
    /\ ~PageRaises(pages[page_num + 1])
    /\ ~PageTooShort(pages[page_num + 1].text)
    /\ \E recs \in {parse_cutoff_page_complete(pages[page_num + 1].text)} :
           /\ records' = recs
           /\ all_records' = all_records \o recs
           /\ page_stats' = Append(page_stats,
                                   [page |-> page_num + 1, records |-> Len(recs)])
           /\ failed_pages' =
                  IF Len(recs) = 0
                  THEN Append(failed_pages, <<page_num + 1, "No records extracted">>)
                  ELSE failed_pages
    /\ page_num' = page_num + 1
    /\ UNCHANGED <<pc, pages, max_pages, df>>
    /\ UNCHANGED <<pageVars, blockVars, fixVars>>

\* lines 355-380: after the loop, the records are deduplicated, sorted and
\* handed over (df), or there is nothing to hand over
FCFinish ==
    /\ pc = "conv"
    /\ page_num >= pages_to_process
    /\ \E deduplicated \in {drop_duplicates(all_records)} :
           df' = IF all_records # <<>> THEN sort_values(deduplicated) ELSE NoTable
    /\ pc' = "done"
    /\ UNCHANGED <<pages, max_pages, page_num, all_records, failed_pages,
                   page_stats, records>>
    /\ UNCHANGED <<pageVars, blockVars, fixVars>>

NextConv == FCPageException \/ FCPageShort \/ FCPageParsed \/ FCFinish

SpecConv == InitConv /\ [][NextConv]_vars

(***************************************************************************)
(* SpecFix: fix_category_name applied once and twice to a token.           *)
(***************************************************************************)
MaxWordLen == 5

FixAlphabet == {"S", "E", "W", "1"}

RECURSIVE WordsUpTo(_)
WordsUpTo(n) ==
    IF n = 0 THEN {""}
    ELSE LET r == WordsUpTo(n - 1)
         IN  r \cup {c \o w : c \in FixAlphabet, w \in r}

FixWords ==
    WordsUpTo(MaxWordLen) \cup DOMAIN category_fixes \cup StripExclusions
    \cup {"SSABCD", "SSORPHAN", "SGOPENS", "SEBCS", "GOPENS", "state", "STAGES"}

InitFix ==
    /\ pc = "fix"
    /\ word \in FixWords
    /\ fixed1 = None /\ fixed2 = None
    /\ records = <<>>
    /\ IdlePage /\ IdleBlock /\ IdleConv

FixOnce ==
    /\ pc = "fix"
    /\ fixed1' = fix_category_name(word)
    /\ pc' = "fix_again"
    /\ UNCHANGED <<word, fixed2, records, pageVars, blockVars, convVars>>

FixTwice ==
    /\ pc = "fix_again"
    /\ fixed2' = fix_category_name(fixed1)
    /\ pc' = "done"
    /\ UNCHANGED <<word, fixed1, records, pageVars, blockVars, convVars>>

NextFix == FixOnce \/ FixTwice

SpecFix == InitFix /\ [][NextFix]_vars

(***************************************************************************)
(* Properties.                                                             *)
(***************************************************************************)
\* the <<Category, Percentile>> of each record, in order
CatPct(recs) == [k \in 1..Len(recs) |-> <<recs[k].Category, recs[k].Percentile>>]

Range(f) == {f[k] : k \in DOMAIN f}

\* ---- C2 ----------------------------------------------------------------
\* C2 as stated: fix_category_name is idempotent for every token, those
\* starting with two or more 'S' included:
\* fix_category_name(fix_category_name(w)) = fix_category_name(w).
C2_IdempotentEverywhere ==
    pc = "done" /\ fixed1 # None => fixed2 = fixed1

\* C2 amended: fix_category_name is idempotent on every token that does not
\* start with two 'S' characters.
C2_IdempotentUnlessDoubleS ==
    pc = "done" /\ fixed1 # None /\ ~StartsWith(word, "SS") => fixed2 = fixed1

\* a token that does not start with "SS", was changed by the first
\* application, and has had the second application
C2_Witness ==
    /\ pc = "done" /\ fixed1 # None
    /\ ~StartsWith(word, "SS")
    /\ fixed1 # word
    /\ fixed1 \notin Range(category_fixes)

\* ---- C1 ----------------------------------------------------------------
C1Page  == JoinLines(<<InstituteLine, CourseLineA, HeaderLine4, DataLine4>>)
C1Page8 == JoinLines(<<InstituteLine, CourseLineA, HeaderLine8, DataLine4>>)

C1_AllOfCourse(recs) ==
    \A k \in 1..Len(recs) :
        recs[k].Institute_Code = "12345" /\ recs[k].Course_Code = "1234567890"

\* C1 as stated: the four-line page with the header line
\* `GOPENS GOPENH GSCS GSTS` yields exactly 4 records of institute 12345 and
\* course 1234567890, GOPENS, GOPENH, GSCS, GSTS paired with 99.99, 95.00,
\* 90.00, 85.00.
C1_FourRecords ==
    pc = "done" /\ text = C1Page =>
        /\ Len(records) = 4
        /\ C1_AllOfCourse(records)
        /\ CatPct(records) = << <<"GOPENS", <<9999, 2>>>>, <<"GOPENH", <<95, 0>>>>,
                                <<"GSCS", <<90, 0>>>>, <<"GSTS", <<85, 0>>>> >>

\* C1 amended: the four-line page yields no record, because its header line has
\* 4 tokens and a main category header needs 8; with the 8-token header line
\* `GOPENS GOPENH GSCS GSTS GVJS GNT1S GOBCS SEWS` in its place the page yields
\* exactly 8 records of institute 12345 and course 1234567890, one per token in
\* order (SEWS corrected to EWS), the first four paired with 99.99, 95.00,
\* 90.00, 85.00 and the other four with an absent percentile.
C1_EightTokenHeader ==
    /\ pc = "done" /\ text = C1Page => records = <<>>
    /\ pc = "done" /\ text = C1Page8 =>
        /\ Len(records) = 8
        /\ C1_AllOfCourse(records)
        /\ CatPct(records) = << <<"GOPENS", <<9999, 2>>>>, <<"GOPENH", <<95, 0>>>>,
                                <<"GSCS", <<90, 0>>>>, <<"GSTS", <<85, 0>>>>,
                                <<"GVJS", NoPercentile>>, <<"GNT1S", NoPercentile>>,
                                <<"GOBCS", NoPercentile>>, <<"EWS", NoPercentile>> >>

\* the four-line page has been parsed: its institute and its course were found
\* and the course's block went through the simple parser
C1_Witness ==
    /\ pc = "done" /\ text = C1Page
    /\ institute_code = "12345" /\ Len(ranges) = 1
    /\ course_section = <<CourseLineA, HeaderLine4, DataLine4>>

\* ---- C7 ----------------------------------------------------------------
\* the indices of the page's course header lines, in document order
C7_HeaderIndices ==
    LET found == CourseLinesFrom(lines, 0)
    IN  [n \in 1..Len(found) |-> found[n][3]]

\* C7 as stated: on every page with an institute line and k >= 1 course header
\* lines at h_1 < ... < h_k, the n-th course is parsed over [h_n, h_{n+1}), the
\* last over [h_k, number of lines), also when a course code repeats.
C7_RangesFollowHeaders ==
    pc \in {"page_courses", "done"} /\ institute_code # None /\ courses # <<>> =>
        \A n \in 1..Len(ranges) :
            LET h == C7_HeaderIndices
            IN  /\ ranges[n][1] = h[n]
                /\ ranges[n][2] = IF n < Len(h) THEN h[n + 1] ELSE Len(lines)
                /\ ranges[n][1] < ranges[n][2]

\* ---- C3 ----------------------------------------------------------------
\* C3 as stated: in the table handed to persistence, row A precedes row B if
\* and only if the key (Institute_Code, Course_Code, Category) of A is less than
\* that of B, also for two rows that share the key.
C3_PrecedesIffLess ==
    pc = "done" /\ df # NoTable =>
        \A a, b \in 1..Len(df) :
            a # b => ((a < b) <=> KeyLess(SortKey(df[a]), SortKey(df[b])))

\* C3 amended: the table holds exactly the distinct accumulated records, each
\* once; if row A precedes row B the key of A is less than or equal to that of
\* B, and a row with a smaller key precedes every row with a larger one; rows
\* that share a key (and differ in Percentile) are adjacent, in either order.
C3_OrderedUpToTies ==
    pc = "done" /\ df # NoTable =>
        /\ Range(df) = Range(all_records)
        /\ \A a, b \in 1..Len(df) : a # b => df[a] # df[b]
        /\ \A a, b \in 1..Len(df) :
               /\ a < b => ~KeyLess(SortKey(df[b]), SortKey(df[a]))
               /\ KeyLess(SortKey(df[a]), SortKey(df[b])) => a < b

\* a table with two rows that share the key and differ in Percentile, made from
\* records that were accumulated out of key order and with a duplicate
C3_Witness ==
    /\ pc = "done" /\ df # NoTable
    /\ \E a, b \in 1..Len(df) :
           /\ a < b
           /\ SortKey(df[a]) = SortKey(df[b])
           /\ df[a].Percentile # df[b].Percentile
    /\ \E a, b \in 1..Len(all_records) :
           a < b /\ KeyLess(SortKey(all_records[b]), SortKey(all_records[a]))
    /\ Len(df) < Len(all_records)

\* ---- C5 ----------------------------------------------------------------
\* page k (numbered from 1) is parsed without an exception
C5_Parsed(k) == ~PageRaises(pages[k]) /\ ~PageTooShort(pages[k].text)

\* the records of the pages 1..n that parsed without an exception, in page order
RECURSIVE C5_RecordsUpTo(_)
C5_RecordsUpTo(n) ==
    IF n = 0 THEN <<>>
    ELSE C5_RecordsUpTo(n - 1) \o
         (IF C5_Parsed(n) THEN parse_cutoff_page_complete(pages[n].text) ELSE <<>>)

\* the members of a finite set of numbers, ascending
Ascending(S) ==
    [k \in 1..Cardinality(S) |->
        CHOOSE x \in S : Cardinality({y \in S : y < x}) = k - 1]

C5_IsException(e) == StartsWith(e[2], "Exception: ")
C5_NotNoRecords(e) == e[2] # "No records extracted"
C5_PageOf(log) == [k \in 1..Len(log) |-> log[k][1]]

\* C5: the pages 0..pages_to_process-1 are visited once each, in order; a page
\* that raises leaves exactly one entry (its number, the message) in the failure
\* log and no record, and the run goes on: the accumulated records are the
\* concatenation, in page order, of the records of the pages that parsed
\* without exception.
C5_FailureIsolation ==
    pc \in {"conv", "done"} =>
        /\ page_num <= pages_to_process
        /\ pc = "done" => page_num = pages_to_process
        /\ all_records = C5_RecordsUpTo(page_num)
        \* one exception entry per page that raised, in page order
        /\ LET raised == Ascending({k \in 1..page_num : PageRaises(pages[k])})
           IN  SelectSeq(failed_pages, C5_IsException) =
                   [n \in 1..Len(raised) |->
                       <<raised[n], "Exception: " \o pages[raised[n]].fault>>]
        \* each page visited so far is logged once: in the failure log when it
        \* raised or was short, else in the statistics
        /\ [k \in 1..Len(page_stats) |-> page_stats[k].page] =
               Ascending({k \in 1..page_num : C5_Parsed(k)})
        /\ C5_PageOf(SelectSeq(failed_pages, C5_NotNoRecords)) =
               Ascending({k \in 1..page_num : ~C5_Parsed(k)})

\* a run that ended after a page raised and a later page gave records
C5_Witness ==
    /\ pc = "done"
    /\ \E k, k2 \in 1..page_num :
           /\ k < k2
           /\ PageRaises(pages[k])
           /\ C5_Parsed(k2)
           /\ parse_cutoff_page_complete(pages[k2].text) # <<>>
    /\ all_records # <<>>

\* ---- the course parsers, under Spec --------------------------------------
\* the run is parse_multi_section_course's (the simple parser leaves i at 0,
\* and the multi-section parser ends with i past the block's first line)
MultiRun == pc = "multi" \/ (pc = "done" /\ i >= 1)
MultiDone == pc = "done" /\ i >= 1
SimpleDone == pc = "done" /\ i = 0

\* the number of records of the sections before the n-th
RECURSIVE RecordsBefore(_)
RecordsBefore(n) ==
    IF n <= 1 THEN 0
    ELSE RecordsBefore(n - 1) + Len(sections[n - 1].categories)

\* the records of the n-th section processed
SectionRecords(n) ==
    SubSeq(records, RecordsBefore(n) + 1, RecordsBefore(n + 1))

LineAt(k) == Strip(course_section[k + 1])

\* ---- C4 ----------------------------------------------------------------
C4Block ==
    <<CourseLineA, HomeToHome, CatLine1, DataLine90, StateLevel, CatLine1, DataLine80>>

\* C4: a block with a "Home University Seats Allotted to Home University"
\* section and a "State Level" section, each listing GOPENS and a data row with
\* its own percentile, gives two GOPENS records, the first with the first
\* section's percentile and the second with the second's; and in every block a
\* section's categories and percentiles are read only from lines after its own
\* marker with no section marker in between.
C4_SectionScoping ==
    /\ MultiDone /\ course_section = C4Block =>
           CatPct(records) = << <<"GOPENS", <<90, 0>>>>, <<"GOPENS", <<80, 0>>>> >>
    /\ MultiRun =>
           \A n \in 1..Len(sections) :
               LET s == sections[n]
               IN  /\ \A t \in (s.marker + 1)..(s.cat_stop - 1) :
                          ~IsSectionHeader(LineAt(t))
                   /\ Len(s.from) = Len(s.percentiles)
                   /\ \A k \in 1..Len(s.from) :
                          /\ s.from[k] > s.marker
                          /\ \A t \in (s.marker + 1)..(s.from[k] - 1) :
                                 ~IsSectionHeader(LineAt(t))
                          /\ s.percentiles[k] \in Range(LinePercentiles(LineAt(s.from[k])))
                   /\ \A k \in 1..Len(s.categories) :
                          /\ SectionRecords(n)[k].Category = s.categories[k]
                          /\ k <= Len(s.percentiles) =>
                                 SectionRecords(n)[k].Percentile = s.percentiles[k]

\* the two-section block has been parsed into its two records
C4_Witness ==
    /\ MultiDone /\ course_section = C4Block
    /\ Len(sections) = 2 /\ Len(records) = 2
    /\ records[1].Percentile # records[2].Percentile

\* ---- C6 ----------------------------------------------------------------
\* records recs pair the categories C with the percentiles P by position
C6_Paired(recs, C, P) ==
    /\ Len(recs) = Len(C)
    /\ \A k \in 1..Len(C) :
           /\ recs[k].Category = C[k]
           /\ recs[k].Percentile = IF k <= Len(P) THEN P[k] ELSE NoPercentile

\* C6: both parsers produce exactly len(C) records in the order of C, record i
\* with Category C[i] and Percentile P[i] when i < len(P) and absent otherwise;
\* percentiles beyond len(C) get no record.
C6_PositionalPairing ==
    /\ SimpleDone => C6_Paired(records, all_categories, percentiles)
    /\ MultiRun =>
           /\ Len(records) = RecordsBefore(Len(sections) + 1)
           /\ \A n \in 1..Len(sections) :
                  C6_Paired(SectionRecords(n), sections[n].categories,
                            sections[n].percentiles)

\* a section with C = [GOPENS, GOPENH, GSCS] and P = [99.99, 95.0] has given its
\* three records, the third with an absent percentile
C6_Witness ==
    /\ MultiRun
    /\ \E n \in 1..Len(sections) :
           /\ sections[n].categories = <<"GOPENS", "GOPENH", "GSCS">>
           /\ sections[n].percentiles = << <<9999, 2>>, <<95, 0>> >>
           /\ CatPct(SectionRecords(n)) =
                  << <<"GOPENS", <<9999, 2>>>>, <<"GOPENH", <<95, 0>>>>,
                     <<"GSCS", NoPercentile>> >>

\* ---- C8 ----------------------------------------------------------------
\* One attempt of the claim's r'\(([0-9]+\.?[0-9]*)\)' at position k: the
\* position of the closing parenthesis, or 0.
C8_MatchAt(s, k) ==
    IF Ch(s, k) # "(" THEN 0
    ELSE LET a == Run(s, k + 1, Digits)
             b == Run(s, k + a + 2, Digits)
         IN  IF a = 0 THEN 0
             ELSE IF Ch(s, k + a + 1) = "." /\ Ch(s, k + a + b + 2) = ")"
                  THEN k + a + b + 2
             ELSE IF Ch(s, k + a + 1) = ")" THEN k + a + 1
             ELSE 0

RECURSIVE C8_FindAllFrom(_, _)
C8_FindAllFrom(s, k) ==
    IF k > Len(s) THEN <<>>
    ELSE LET e == C8_MatchAt(s, k)
         IN  IF e = 0 THEN C8_FindAllFrom(s, k + 1)
             ELSE <<SubSeq(s, k + 1, e - 1)>> \o C8_FindAllFrom(s, e + 1)

\* the claim's percentile list: the matches with value in [0,100], line by
\* line from line k through the first terminating line
RECURSIVE C8_ListFrom(_)
C8_ListFrom(k) ==
    IF k >= Len(course_section) THEN <<>>
    ELSE KeepInRange(C8_FindAllFrom(LineAt(k), 1)) \o
         (IF DataSectionStop(LineAt(k)) THEN <<>> ELSE C8_ListFrom(k + 1))

\* C8 as stated: once a data-section start line exists, the percentile list of
\* the simple parser is every parenthesized substring matching
\* \(([0-9]+\.?[0-9]*)\) with value in [0,100], in order, from the start line
\* through the first terminating line, (5) and (7.) included.
C8_PercentilesAsClaimed ==
    pc = "simple_records" /\ data_start_idx # -1 =>
        percentiles = C8_ListFrom(data_start_idx)

\* ---- C9 ----------------------------------------------------------------
\* the lines the percentile phase of a section read
PercentileLinesRead(s) ==
    {k \in s.cat_stop..s.j : k < Len(course_section)}

\* the step processes a section
SectionProcessed == Len(sections') = Len(sections) + 1

\* C9 as stated: after a section is processed the outer cursor is past every
\* line its percentile phase read, the terminating line included.
C9_CursorPastEveryLine ==
    [][SectionProcessed =>
          \A k \in PercentileLinesRead(sections'[Len(sections')]) : i' > k]_vars

\* C9 amended: after a section is processed the outer cursor is past every line
\* its percentile phase read except the terminating line: it rests on the
\* terminating line, which the outer scan examines again as a candidate marker,
\* or at the end of the block when no line terminated the phase.
C9_CursorOnTerminatingLine ==
    [][SectionProcessed =>
          LET s    == sections'[Len(sections')]
              read == PercentileLinesRead(s)
              term == {k \in read : PercentilePhaseStop(LineAt(k))}
          IN  /\ \A k \in read : k < i' \/ (k = i' /\ k \in term)
              /\ term # {} => i' \in term /\ \A k \in term : k = i'
              /\ term = {} => i' = Len(course_section)
              /\ i' > s.marker]_vars

\* a section has just been processed, its percentile phase read more than one
\* line, and the cursor rests on the line that terminated it
C9_Witness ==
    /\ pc = "multi" /\ sections # <<>>
    /\ LET s == sections[Len(sections)]
       IN  /\ i = s.j /\ i < Len(course_section)
           /\ s.cat_stop < s.j
           /\ PercentilePhaseStop(LineAt(i))
           /\ s.percentiles # <<>>

\* ---- C10 ---------------------------------------------------------------
\* C10: every iteration of the outer loop of parse_multi_section_course moves
\* the cursor i forward, so the scan of a finite block ends; and no line has
\* its percentile values appended to the lists of two sections.
C10_TerminatesSingleAttribution ==
    /\ [][pc = "multi" /\ pc' = "multi" => i' > i]_vars
    /\ [](MultiRun =>
             /\ i <= Len(course_section) + 1
             /\ \A a, b \in 1..Len(sections) :
                    a # b => Range(sections[a].from) \cap Range(sections[b].from) = {}
             /\ \A a, b \in 1..Len(sections) :
                    a # b => PercentileLinesRead(sections[a])
                                 \cap PercentileLinesRead(sections[b]) = {})
    /\ (pc = "multi") ~> (pc = "done")

\* a scan that ended after a section whose two phases both stopped on the line
\* right after the marker, and after another section that read percentiles
C10_Witness ==
    /\ MultiDone
    /\ \E a, b \in 1..Len(sections) :
           /\ a # b
           /\ sections[a].cat_stop = sections[a].marker + 1
           /\ sections[a].j = sections[a].marker + 1
           /\ sections[a].j < Len(course_section)
           /\ sections[b].percentiles # <<>>

====
